---- MODULE Spec2Model ----
(***************************************************************************)
(* A model of the rusty_ollama client (src/src/lib.rs): the request        *)
(* builder, the non-streaming response decoder, the streaming line decoder *)
(* and the threading of the conversation context through the Client.       *)
(***************************************************************************)
EXTENDS Integers, Sequences, FiniteSets, TLC

(***************************************************************************)
(* Bounds of the model.                                                    *)
(***************************************************************************)
\* context tokens are drawn from 1..MaxTok
MaxTok == 2
\* a streamed body holds at most MaxLines lines
MaxLines == 2

(***************************************************************************)
(* Program constants.                                                      *)
(***************************************************************************)
\* prompt_eval_count: u8
U8Range == 256
\* eval_count: u16
U16Range == 65536

(***************************************************************************)
(* Result and Option values.                                               *)
(***************************************************************************)
Ok(v) == [ok |-> TRUE, v |-> v]
Err(e) == [ok |-> FALSE, err |-> e]
Some(v) == [some |-> TRUE, v |-> v]
None == [some |-> FALSE]

(***************************************************************************)
(* serde_json::Value.  A number is an integer (negative ones are not u64); *)
(* the content of a string is a text (see below).                          *)
(***************************************************************************)
Null == [t |-> "null"]
Bool(b) == [t |-> "bool", b |-> b]
Num(n) == [t |-> "num", n |-> n]
Str(s) == [t |-> "str", s |-> s]
Arr(a) == [t |-> "arr", a |-> a]
Obj(f) == [t |-> "obj", f |-> f]

(***************************************************************************)
(* Text: a sequence of tokens.  A token is a whitespace character, a       *)
(* newline, the text of one complete JSON value, or characters that are    *)
(* not JSON.  Two JSON tokens side by side are two values.                 *)
(***************************************************************************)
Ws(c) == [k |-> "ws", c |-> c]
Nl == [k |-> "nl"]
Js(v) == [k |-> "json", v |-> v]
Raw(s) == [k |-> "raw", s |-> s]
SP == Ws(" ")
CR == Ws("\r")

IsWhitespace(tok) == tok.k \in {"ws", "nl"}

\* str::trim followed by is_empty
trim(line) ==
  LET idx == {i \in 1..Len(line) : ~IsWhitespace(line[i])}
      lo == CHOOSE i \in idx : \A j \in idx : i <= j
      hi == CHOOSE i \in idx : \A j \in idx : j <= i
  IN IF idx = {} THEN <<>> ELSE SubSeq(line, lo, hi)

\* serde_json::from_str::<Value>: whitespace around exactly one JSON value
from_str_Value(text) ==
  LET core == SelectSeq(text, LAMBDA tok : ~IsWhitespace(tok))
  IN IF Len(core) = 1 /\ core[1].k = "json" THEN Ok(core[1].v) ELSE Err("Serde")

\* Value's Index<&str>: Null for a missing key or a value that is no object
Get(value, key) ==
  IF value.t = "obj" /\ key \in DOMAIN value.f THEN value.f[key] ELSE Null

\* Value::as_u64
as_u64(value) == IF value.t = "num" /\ value.n >= 0 THEN Some(value.n) ELSE None
\* Value::as_str
as_str(value) == IF value.t = "str" THEN Some(value.s) ELSE None

unwrap_or(opt, dflt) == IF opt.some THEN opt.v ELSE dflt

\* arr.iter().filter_map(Value::as_u64).collect()
filter_map_as_u64(arr) ==
  LET kept == SelectSeq(arr, LAMBDA e : as_u64(e).some)
  IN [i \in 1..Len(kept) |-> kept[i].n]

(***************************************************************************)
(* impl From<Value> for OllamaResponse                                     *)
(***************************************************************************)
\* a decoder that gives up the whole context for one bad element
context_from_Value_all_or_nothing(value) ==
  LET c == Get(value, "context")
  IN IF c.t = "arr" /\ \A i \in 1..Len(c.a) : as_u64(c.a[i]).some
       THEN filter_map_as_u64(c.a) ELSE <<>>

context_from_Value(value) ==
  LET c == Get(value, "context")
  IN IF c.t = "arr" THEN filter_map_as_u64(c.a) ELSE <<>>

\* a decoder that unwraps the inner response a second time
response_from_Value_unwrapping_twice(value) ==
  LET raw == unwrap_or(as_str(Get(value, "response")), <<>>)
      inner == from_str_Value(raw)
      once == IF inner.ok THEN unwrap_or(as_str(Get(inner.v, "response")), raw) ELSE raw
      again == from_str_Value(once)
  IN IF again.ok THEN unwrap_or(as_str(Get(again.v, "response")), once) ELSE once

response_from_Value(value) ==
  LET raw == unwrap_or(as_str(Get(value, "response")), <<>>)
      inner == from_str_Value(raw)
  IN IF inner.ok THEN unwrap_or(as_str(Get(inner.v, "response")), raw) ELSE raw

\* a decoder that clamps a count to the largest value of its field
Clamp(n, range) == IF n < range THEN n ELSE range - 1

OllamaResponse_from_saturating(value) ==
  [ total_duration       |-> unwrap_or(as_u64(Get(value, "total_duration")), 0),
    load_duration        |-> unwrap_or(as_u64(Get(value, "load_duration")), 0),
    prompt_eval_count    |-> Clamp(unwrap_or(as_u64(Get(value, "prompt_eval_count")), 0), U8Range),
    prompt_eval_duration |-> unwrap_or(as_u64(Get(value, "prompt_eval_duration")), 0),
    eval_count           |-> Clamp(unwrap_or(as_u64(Get(value, "eval_count")), 0), U16Range),
    eval_duration        |-> unwrap_or(as_u64(Get(value, "eval_duration")), 0),
    context              |-> context_from_Value(value),
    response             |-> response_from_Value(value) ]

OllamaResponse_from(value) ==
  [ total_duration       |-> unwrap_or(as_u64(Get(value, "total_duration")), 0),
    load_duration        |-> unwrap_or(as_u64(Get(value, "load_duration")), 0),
    prompt_eval_count    |-> unwrap_or(as_u64(Get(value, "prompt_eval_count")), 0) % U8Range,
    prompt_eval_duration |-> unwrap_or(as_u64(Get(value, "prompt_eval_duration")), 0),
    eval_count           |-> unwrap_or(as_u64(Get(value, "eval_count")), 0) % U16Range,
    eval_duration        |-> unwrap_or(as_u64(Get(value, "eval_duration")), 0),
    context              |-> context_from_Value(value),
    response             |-> response_from_Value(value) ]

\* impl TryFrom<&str> / TryFrom<String> for OllamaResponse
OllamaResponse_try_from(json_str) ==
  LET parsed == from_str_Value(json_str)
  IN IF parsed.ok THEN Ok(OllamaResponse_from(parsed.v)) ELSE Err("Serde")

(***************************************************************************)
(* #[derive(Deserialize)] for OllamaStreamResponse, as serde_json applies  *)
(* it: an object gives the fields by name, an array gives them by          *)
(* position; model, created_at, response and done are required, the others *)
(* default to None when absent or null; a field of the wrong type, or a    *)
(* count that does not fit its u8 or u16, fails the whole line.            *)
(***************************************************************************)
FieldNames ==
  << "model", "created_at", "response", "done", "done_reason", "context",
     "total_duration", "load_duration", "prompt_eval_count",
     "prompt_eval_duration", "eval_count", "eval_duration" >>

Absent == [t |-> "absent"]

AsFields(value) ==
  IF value.t = "obj" THEN Ok(value.f)
  ELSE IF value.t = "arr" /\ Len(value.a) <= Len(FieldNames)
    THEN Ok([k \in {FieldNames[i] : i \in 1..Len(value.a)} |->
               value.a[CHOOSE i \in 1..Len(value.a) : FieldNames[i] = k]])
    ELSE Err("Serde")

Field(f, k) == IF k \in DOMAIN f THEN f[k] ELSE Absent

IsString(v) == v.t = "str"
IsBool(v) == v.t = "bool"
IsU64(v) == v.t = "num" /\ v.n >= 0
\* a prompt_eval_count read as wide as the durations
IsU8_wide(v) == v.t = "num" /\ v.n >= 0
IsU8(v) == IsU64(v) /\ v.n < U8Range
IsU16(v) == IsU64(v) /\ v.n < U16Range
IsVecU64(v) == v.t = "arr" /\ \A i \in 1..Len(v.a) : IsU64(v.a[i])
Missing(v) == v.t \in {"absent", "null"}
OptNum(v) == IF Missing(v) THEN None ELSE Some(v.n)
OptStr(v) == IF Missing(v) THEN None ELSE Some(v.s)
OptVec(v) == IF Missing(v) THEN None ELSE Some([i \in 1..Len(v.a) |-> v.a[i].n])

OllamaStreamResponse_deserialize(value) ==
  LET fs == AsFields(value)
      F(k) == Field(fs.v, k)
  IN IF ~fs.ok THEN Err("Serde")
     ELSE IF /\ IsString(F("model"))
             /\ IsString(F("created_at"))
             /\ IsString(F("response"))
             /\ IsBool(F("done"))
             /\ (Missing(F("done_reason")) \/ IsString(F("done_reason")))
             /\ (Missing(F("context")) \/ IsVecU64(F("context")))
             /\ (Missing(F("total_duration")) \/ IsU64(F("total_duration")))
             /\ (Missing(F("load_duration")) \/ IsU64(F("load_duration")))
             /\ (Missing(F("prompt_eval_count")) \/ IsU8(F("prompt_eval_count")))
             /\ (Missing(F("prompt_eval_duration")) \/ IsU64(F("prompt_eval_duration")))
             /\ (Missing(F("eval_count")) \/ IsU16(F("eval_count")))
             /\ (Missing(F("eval_duration")) \/ IsU64(F("eval_duration")))
       THEN Ok([ model                |-> F("model").s,
                 created_at           |-> F("created_at").s,
                 response             |-> F("response").s,
                 done                 |-> F("done").b,
                 done_reason          |-> OptStr(F("done_reason")),
                 context              |-> OptVec(F("context")),
                 total_duration       |-> OptNum(F("total_duration")),
                 load_duration        |-> OptNum(F("load_duration")),
                 prompt_eval_count    |-> OptNum(F("prompt_eval_count")),
                 prompt_eval_duration |-> OptNum(F("prompt_eval_duration")),
                 eval_count           |-> OptNum(F("eval_count")),
                 eval_duration        |-> OptNum(F("eval_duration")) ])
       ELSE Err("Serde")

\* serde_json::from_str::<OllamaStreamResponse>(&line)
from_str_OllamaStreamResponse(line) ==
  LET parsed == from_str_Value(line)
  IN IF parsed.ok THEN OllamaStreamResponse_deserialize(parsed.v) ELSE Err("Serde")

\* a closure that tests the line for emptiness without trimming it
filter_map_line_untrimmed(line_result) ==
  IF line_result.ok
    THEN IF line_result.v # <<>>
           THEN Some(from_str_OllamaStreamResponse(line_result.v))
           ELSE None
    ELSE Some(Err("Io"))

\* a closure that reports a framing error as a decode error
filter_map_line_normalizing(line_result) ==
  IF line_result.ok
    THEN IF trim(line_result.v) # <<>>
           THEN Some(from_str_OllamaStreamResponse(line_result.v))
           ELSE None
    ELSE Some(Err("Serde"))

\* a closure that skips the lines it cannot decode
filter_map_line_skipping_errors(line_result) ==
  IF line_result.ok
    THEN IF trim(line_result.v) # <<>> /\ from_str_OllamaStreamResponse(line_result.v).ok
           THEN Some(from_str_OllamaStreamResponse(line_result.v))
           ELSE None
    ELSE Some(Err("Io"))

(***************************************************************************)
(* The closure of lines.filter_map in stream_generate: a line that is not  *)
(* blank is decoded, a blank one gives nothing, a framing error is passed  *)
(* on as an Io error.                                                      *)
(***************************************************************************)
filter_map_line(line_result) ==
  IF line_result.ok
    THEN IF trim(line_result.v) # <<>>
           THEN Some(from_str_OllamaStreamResponse(line_result.v))
           ELSE None
    ELSE Some(Err("Io"))

(***************************************************************************)
(* tokio_util's LinesCodec, as FramedRead drives it: decode takes the      *)
(* bytes up to the first newline, without the newline and without one      *)
(* carriage return before it; decode_eof also takes what is left without a *)
(* newline, unless that is nothing or a lone carriage return.              *)
(***************************************************************************)
without_carriage_return(line) ==
  IF Len(line) > 0 /\ line[Len(line)] = CR THEN SubSeq(line, 1, Len(line) - 1) ELSE line

\* a codec that forgets the bytes buffered behind the line it takes
LinesCodec_decode_dropping_rest(buf) ==
  LET nls == {i \in 1..Len(buf) : buf[i] = Nl}
      at == CHOOSE i \in nls : \A j \in nls : i <= j
  IN IF nls = {} THEN [frame |-> None, rest |-> buf]
     ELSE [ frame |-> Some(SubSeq(buf, 1, at - 1)), rest |-> <<>> ]

LinesCodec_decode(buf) ==
  LET nls == {i \in 1..Len(buf) : buf[i] = Nl}
      at == CHOOSE i \in nls : \A j \in nls : i <= j
  IN IF nls = {} THEN [frame |-> None, rest |-> buf]
     ELSE [ frame |-> Some(without_carriage_return(SubSeq(buf, 1, at - 1))),
            rest |-> SubSeq(buf, at + 1, Len(buf)) ]

LinesCodec_decode_eof(buf) ==
  LET d == LinesCodec_decode(buf)
  IN IF d.frame.some THEN d
     ELSE IF buf = <<>> \/ buf = <<CR>> THEN [frame |-> None, rest |-> buf]
     ELSE [frame |-> Some(without_carriage_return(buf)), rest |-> <<>>]

(***************************************************************************)
(* The request builder.                                                    *)
(***************************************************************************)
\* a conversion that writes the name of the variant
Format_into_String_named(val) == IF val = "None" THEN "none" ELSE "json"

\* impl From<Format> for String
Format_into_String(val) == IF val = "None" THEN "" ELSE "json"

OllamaRequest_new(m, prompt, options, stream, raw) ==
  [ model   |-> m,
    prompt  |-> prompt,
    suffix  |-> options.suffix,
    format  |-> Format_into_String(options.format),
    system  |-> options.system,
    stream  |-> stream,
    raw     |-> raw,
    context |-> options.context ]

OllamaRequest_default ==
  OllamaRequest_new("llama3.2", "",
                    [suffix |-> "", format |-> "None", system |-> "", context |-> <<>>],
                    FALSE, FALSE)

\* the characters of a Rust string as a text
Text(s) == IF s = "" THEN <<>> ELSE <<Raw(s)>>

\* serde_json::to_string(&request): it cannot fail for this struct
to_string(request) ==
  << Js(Obj([ model   |-> Str(Text(request.model)),
              prompt  |-> Str(Text(request.prompt)),
              suffix  |-> Str(Text(request.suffix)),
              format  |-> Str(Text(request.format)),
              system  |-> Str(Text(request.system)),
              stream  |-> Bool(request.stream),
              raw     |-> Bool(request.raw),
              context |-> Arr([i \in 1..Len(request.context) |-> Num(request.context[i])]) ])) >>

(***************************************************************************)
(* What the service and the transport may do: the inputs of the model.     *)
(***************************************************************************)
\* contexts the service sends: no token, one token, or two tokens
Contexts == {<<>>} \cup {<<t>> : t \in 1..MaxTok} \cup {<<1, MaxTok>>}

Prompts == {"Why is the sky blue?"}

NumArr(ctx) == Arr([i \in 1..Len(ctx) |-> Num(ctx[i])])

\* a complete non-streaming answer
FullAnswer(ctx) ==
  Obj([ model                |-> Str(Text("phi4")),
        created_at           |-> Str(Text("2025-01-01T00:00:00Z")),
        response             |-> Str(Text("Hello there")),
        done                 |-> Bool(TRUE),
        context              |-> NumArr(ctx),
        total_duration       |-> Num(9),
        load_duration        |-> Num(1),
        prompt_eval_count    |-> Num(2),
        prompt_eval_duration |-> Num(3),
        eval_count           |-> Num(4),
        eval_duration        |-> Num(5) ])

\* the service's answer to a request it rejects
ErrorAnswer == Obj([error |-> Str(Text("model not found"))])

\* every field present and of another type than the decoder reads
WrongTypedAnswer ==
  Obj([ response             |-> Num(7),
        context              |-> Str(Text("1,2")),
        total_duration       |-> Num(-1),
        load_duration        |-> Str(Text("1")),
        prompt_eval_count    |-> Null,
        prompt_eval_duration |-> Bool(TRUE),
        eval_count           |-> Arr(<<>>),
        eval_duration        |-> Obj(<<>>) ])

\* a context array of which some elements are not unsigned integers
MixedContextAnswer ==
  Obj([ response |-> Str(Text("Hello there")),
        context  |-> Arr(<<Num(1), Str(Text("2")), Num(-1), Num(MaxTok)>>),
        eval_count |-> Num(4) ])

\* counts that do not fit the u8 and the u16 of OllamaResponse
BigCountAnswer ==
  Obj([ response          |-> Str(Text("Hello there")),
        context           |-> NumArr(<<1>>),
        prompt_eval_count |-> Num(U8Range + 44),
        eval_count        |-> Num(U16Range + 5) ])

\* an answer whose response is the given text
Answering(text) == Obj([response |-> Str(text), context |-> NumArr(<<1>>)])

\* the response is itself JSON with a response key
DoubleEncoded == <<Js(Obj([response |-> Str(Text("inner text"))]))>>
\* the response is JSON without a response key, or with one that is no string
NoInnerKey == <<Js(Obj([answer |-> Str(Text("inner text"))]))>>
InnerNotString == <<Js(Obj([response |-> Num(7)]))>>
\* the response is JSON, but no object
BareNumber == <<SP, Js(Num(42))>>
\* the inner response is once more JSON with a response key
TripleEncoded == <<Js(Obj([response |-> Str(DoubleEncoded)]))>>

EncodedAnswers ==
  {Answering(t) : t \in {DoubleEncoded, NoInnerKey, InnerNotString, BareNumber, TripleEncoded}}

\* counts at and around the limits of the u8 and the u16
CountAnswer(prompt_eval_count, eval_count) ==
  Obj([ response          |-> Str(Text("Hello there")),
        context           |-> NumArr(<<1>>),
        prompt_eval_count |-> Num(prompt_eval_count),
        eval_count        |-> Num(eval_count) ])

CountAnswers ==
  { CountAnswer(U8Range - 1, U16Range - 1),
    CountAnswer(U8Range, U8Range + 44),
    CountAnswer(2 * U8Range + 1, 2 * U16Range + 1) }

JsonAnswers ==
  {FullAnswer(ctx) : ctx \in Contexts}
    \cup { ErrorAnswer, WrongTypedAnswer, MixedContextAnswer, BigCountAnswer,
           Obj(<<>>), Null, Num(5), Arr(<<Num(1)>>), Str(Text("Hello there")) }
    \cup EncodedAnswers
    \cup CountAnswers

\* bodies that are JSON: one value, with or without whitespace around it
ValidBodies ==
  {<<Js(v)>> : v \in JsonAnswers} \cup {<<SP, Js(FullAnswer(<<1>>)), Nl>>}

\* bodies that are not JSON
InvalidBodies ==
  { <<>>, <<Raw("<html>502 Bad Gateway</html>")>>,
    <<Js(FullAnswer(<<1>>)), Js(FullAnswer(<<1>>))>>,
    <<Js(FullAnswer(<<1>>)), Raw("}")>>, <<SP>> }

\* bodies the service sends with a non-2xx status
ErrorBodies == {<<Js(ErrorAnswer)>>, <<Raw("<html>502 Bad Gateway</html>")>>}

Reply(status, body) == [kind |-> "reply", status |-> status, body |-> body]

\* send() or text() fail (connection, timeout, body read), or a reply arrives
NonStreamingNet ==
  {[kind |-> "send_err"], [kind |-> "body_err"]}
    \cup {Reply(200, b) : b \in ValidBodies \cup InvalidBodies}
    \cup {Reply(st, b) : st \in {404, 500}, b \in ErrorBodies}

\* the lines of a streamed body
FragmentLine ==
  <<Js(Obj([ model      |-> Str(Text("phi4")),
             created_at |-> Str(Text("2025-01-01T00:00:00Z")),
             response   |-> Str(Text("The")),
             done       |-> Bool(FALSE) ]))>>

TerminalLine(ctx) ==
  <<Js([FullAnswer(ctx) EXCEPT !.f.response = Str(<<>>)])>>

StreamLines ==
  { <<>>, <<SP>>, FragmentLine, TerminalLine(<<MaxTok>>),
    <<Raw("oops")>>, <<Js(ErrorAnswer)>> }

RECURSIVE Join(_)
\* lines, each followed by its newline
Join(lines) ==
  IF lines = <<>> THEN <<>> ELSE Head(lines) \o <<Nl>> \o Join(Tail(lines))

\* a streamed body: up to MaxLines lines, the last with or without its newline
StreamBodies ==
  LET lineSeqs == UNION {[1..n -> StreamLines] : n \in 1..MaxLines}
  IN {Join(ls) : ls \in lineSeqs}
       \cup {SubSeq(Join(ls), 1, Len(Join(ls)) - 1) : ls \in lineSeqs}

StreamingNet ==
  {[kind |-> "send_err"]}
    \cup {Reply(200, b) : b \in StreamBodies}
    \cup {Reply(404, Join(<<b>>)) : b \in ErrorBodies}

(***************************************************************************)
(* The state.                                                              *)
(***************************************************************************)
VARIABLES
  ollama,    \* the Client: struct Ollama (url, model, system, context)
  call,      \* the most recent call: what it saw, sent, received and returned
  phase,     \* of the sequence stream_generate returned: "none", "live", "ended"
  bytes,     \* res.bytes_stream(): the bytes of the body not yet read
  framed,    \* FramedRead's state: buffer, eof, is_readable, has_errored
  items,     \* the items the sequence has yielded so far
  origin,    \* per item, the number of the line it comes from (0: no line)
  nlines,    \* the number of lines framed so far
  produced,  \* the context of the most recent response or terminal event
  request    \* the request the caller last built itself: OllamaRequest

vars == <<ollama, call, phase, bytes, framed, items, origin, nlines, produced, request>>
stream_vars == <<phase, bytes, framed, items, origin, nlines>>

\* Ollama::new
Ollama_new(url, model) ==
  [url |-> url, model |-> model, context |-> <<>>, system |-> ""]

\* FramedRead::new
FramedRead_new == [buffer |-> <<>>, eof |-> FALSE, is_readable |-> FALSE, has_errored |-> FALSE]

NoCall == [op |-> "none"]
NoRequest == [via |-> "none"]

Init ==
  /\ ollama = Ollama_new("http://localhost:11434/api/generate", "phi4")
  /\ call = NoCall
  /\ phase = "none"
  /\ bytes = <<>>
  /\ framed = FramedRead_new
  /\ items = <<>>
  /\ origin = <<>>
  /\ nlines = 0
  /\ produced = <<>>
  /\ request = NoRequest

(***************************************************************************)
(* The calls.                                                              *)
(***************************************************************************)
\* the request every call builds from the Client
build_request(self, prompt, stream) ==
  OllamaRequest_new(self.model, prompt,
                    [suffix |-> "", format |-> "None",
                     system |-> self.system, context |-> self.context],
                    stream, FALSE)

\* a generate that appends the response's context to the Client's
generate_outcome_appending(self, net) ==
  IF net.kind # "reply" THEN [result |-> Err("Reqwest"), context |-> self.context]
  ELSE LET response == OllamaResponse_try_from(net.body)
       IN IF response.ok
            THEN [result |-> response, context |-> self.context \o response.v.context]
            ELSE [result |-> Err("Serde"), context |-> self.context]

\* generate after the request is written: send, text, try_from, the assignment
generate_outcome(self, net) ==
  IF net.kind # "reply" THEN [result |-> Err("Reqwest"), context |-> self.context]
  ELSE LET response == OllamaResponse_try_from(net.body)
       IN IF response.ok
            THEN [result |-> response, context |-> response.v.context]
            ELSE [result |-> Err("Serde"), context |-> self.context]

\* a generate_blocking that stores a context before it checks the decoding
generate_blocking_outcome_early_assign(self, net) ==
  IF net.kind # "reply" THEN [result |-> Err("Reqwest"), context |-> self.context]
  ELSE LET response == OllamaResponse_try_from(net.body)
       IN IF response.ok
            THEN [result |-> response, context |-> response.v.context]
            ELSE [result |-> Err("Serde"), context |-> <<>>]

\* generate_blocking after the request is written
generate_blocking_outcome(self, net) ==
  IF net.kind # "reply" THEN [result |-> Err("Reqwest"), context |-> self.context]
  ELSE LET response == OllamaResponse_try_from(net.body)
       IN IF response.ok
            THEN [result |-> response, context |-> response.v.context]
            ELSE [result |-> Err("Serde"), context |-> self.context]

\* a stream_generate that moves the context into the request
stream_generate_outcome_taking_context(self, net) ==
  IF net.kind # "reply" THEN [result |-> Err("Reqwest"), context |-> <<>>]
  ELSE [result |-> Ok("stream"), context |-> <<>>]

\* stream_generate after the request is written: send, then the lazy sequence
stream_generate_outcome(self, net) ==
  IF net.kind # "reply" THEN [result |-> Err("Reqwest"), context |-> self.context]
  ELSE [result |-> Ok("stream"), context |-> self.context]

Called(op, prompt, net, out) ==
  [ op            |-> op,
    before        |-> ollama,
    threaded      |-> produced,
    request_json  |-> to_string(build_request(ollama, prompt, op = "stream_generate")),
    net           |-> net,
    result        |-> out.result ]

generate(prompt, net) ==
  /\ phase = "none"
  /\ LET out == generate_outcome(ollama, net)
     IN /\ ollama' = [ollama EXCEPT !.context = out.context]
        /\ call' = Called("generate", prompt, net, out)
        /\ produced' = IF out.result.ok THEN out.result.v.context ELSE produced
  /\ UNCHANGED <<stream_vars, request>>

generate_blocking(prompt, net) ==
  /\ phase = "none"
  /\ LET out == generate_blocking_outcome(ollama, net)
     IN /\ ollama' = [ollama EXCEPT !.context = out.context]
        /\ call' = Called("generate_blocking", prompt, net, out)
        /\ produced' = IF out.result.ok THEN out.result.v.context ELSE produced
  /\ UNCHANGED <<stream_vars, request>>

stream_generate(prompt, net) ==
  /\ phase = "none"
  /\ LET out == stream_generate_outcome(ollama, net)
     IN /\ ollama' = [ollama EXCEPT !.context = out.context]
        /\ call' = Called("stream_generate", prompt, net, out)
        /\ phase' = IF out.result.ok THEN "live" ELSE "none"
        /\ bytes' = IF out.result.ok THEN net.body ELSE <<>>
  /\ framed' = FramedRead_new
  /\ items' = <<>>
  /\ origin' = <<>>
  /\ nlines' = 0
  /\ UNCHANGED <<produced, request>>

(***************************************************************************)
(* The sequence stream_generate returns, polled by its consumer: the steps *)
(* of FramedRead::poll_next (tokio-util 0.7) under filter_map.  Each read  *)
(* of the transport is a suspension point, so a poll is several steps.     *)
(* After a framing error FramedRead answers the next poll with the end of  *)
(* the sequence.                                                           *)
(***************************************************************************)
\* a frame or a framing error goes through the closure of filter_map
Yield(line_result, line_no) ==
  LET item == filter_map_line(line_result)
  IN /\ items' = IF item.some THEN Append(items, item.v) ELSE items
     /\ origin' = IF item.some THEN Append(origin, line_no) ELSE origin
     /\ produced' = IF item.some /\ item.v.ok /\ item.v.v.done /\ item.v.v.context.some
                      THEN item.v.v.context.v ELSE produced

\* framing: the buffer is readable and the body has not ended
poll_decode ==
  /\ phase = "live" /\ ~framed.has_errored /\ framed.is_readable /\ ~framed.eof
  /\ LET d == LinesCodec_decode(framed.buffer)
     IN IF d.frame.some
          THEN /\ Yield(Ok(d.frame.v), nlines + 1)
               /\ nlines' = nlines + 1
               /\ framed' = [framed EXCEPT !.buffer = d.rest]
          ELSE /\ framed' = [framed EXCEPT !.is_readable = FALSE]
               /\ UNCHANGED <<items, origin, nlines, produced>>
  /\ UNCHANGED <<ollama, call, phase, bytes, request>>

\* pausing: the body has ended, what is left in the buffer is framed
poll_decode_eof ==
  /\ phase = "live" /\ ~framed.has_errored /\ framed.is_readable /\ framed.eof
  /\ LET d == LinesCodec_decode_eof(framed.buffer)
     IN IF d.frame.some
          THEN /\ Yield(Ok(d.frame.v), nlines + 1)
               /\ nlines' = nlines + 1
               /\ framed' = [framed EXCEPT !.buffer = d.rest]
               /\ UNCHANGED phase
          ELSE /\ framed' = [framed EXCEPT !.is_readable = FALSE]
               /\ phase' = "ended"
               /\ UNCHANGED <<items, origin, nlines, produced>>
  /\ UNCHANGED <<ollama, call, bytes, request>>

\* a read that overwrites what is buffered instead of appending to it
poll_read_overwriting(n) ==
  /\ phase = "live" /\ ~framed.has_errored /\ ~framed.is_readable
  /\ n \in 1..Len(bytes)
  /\ framed' = [framed EXCEPT !.buffer = SubSeq(bytes, 1, n),
                              !.eof = FALSE, !.is_readable = TRUE]
  /\ bytes' = SubSeq(bytes, n + 1, Len(bytes))
  /\ UNCHANGED <<ollama, call, phase, items, origin, nlines, produced, request>>

\* reading: the transport hands over the next n bytes
poll_read(n) ==
  /\ phase = "live" /\ ~framed.has_errored /\ ~framed.is_readable
  /\ n \in 1..Len(bytes)
  /\ framed' = [framed EXCEPT !.buffer = @ \o SubSeq(bytes, 1, n),
                              !.eof = FALSE, !.is_readable = TRUE]
  /\ bytes' = SubSeq(bytes, n + 1, Len(bytes))
  /\ UNCHANGED <<ollama, call, phase, items, origin, nlines, produced, request>>

\* reading: the body ends
poll_read_end ==
  /\ phase = "live" /\ ~framed.has_errored /\ ~framed.is_readable
  /\ bytes = <<>>
  /\ framed' = [framed EXCEPT !.eof = TRUE, !.is_readable = TRUE]
  /\ UNCHANGED <<ollama, call, phase, bytes, items, origin, nlines, produced, request>>

\* reading: the transport fails; the framing error is yielded as an item
poll_read_err ==
  /\ phase = "live" /\ ~framed.has_errored /\ ~framed.is_readable
  /\ Yield(Err("LinesCodecError::Io"), 0)
  /\ framed' = [framed EXCEPT !.has_errored = TRUE]
  /\ UNCHANGED <<ollama, call, phase, bytes, nlines, request>>

\* the poll after a framing error ends the sequence
poll_after_err ==
  /\ phase = "live" /\ framed.has_errored
  /\ framed' = [framed EXCEPT !.has_errored = FALSE, !.is_readable = FALSE]
  /\ phase' = "ended"
  /\ UNCHANGED <<ollama, call, bytes, items, origin, nlines, produced, request>>

\* the consumer drops the sequence, which gives the Client back
drop_stream ==
  /\ phase \in {"live", "ended"}
  /\ phase' = "none"
  /\ bytes' = <<>>
  /\ framed' = FramedRead_new
  /\ items' = <<>>
  /\ origin' = <<>>
  /\ nlines' = 0
  /\ UNCHANGED <<ollama, call, produced, request>>

Next ==
  \/ \E prompt \in Prompts, net \in NonStreamingNet : generate(prompt, net)
  \/ \E prompt \in Prompts, net \in NonStreamingNet : generate_blocking(prompt, net)
  \/ \E prompt \in Prompts, net \in StreamingNet : stream_generate(prompt, net)
  \/ poll_decode
  \/ poll_decode_eof
  \/ \E n \in 1..(2 * MaxLines + 2) : poll_read(n)
  \/ poll_read_end
  \/ poll_read_err
  \/ poll_after_err
  \/ drop_stream

Spec == Init /\ [][Next]_vars

(***************************************************************************)
(* The request builder used on its own: the caller builds a request with   *)
(* OllamaRequest::default() or OllamaRequest::new and serializes it.       *)
(***************************************************************************)
Models == {"llama3.2", "phi4"}
Texts == {"", "hi"}
Formats == {"None", "JSON"}
RequestOptions ==
  [suffix : Texts, format : Formats, system : Texts, context : Contexts]

Built(via, value) == [via |-> via, value |-> value, json |-> to_string(value)]

request_default ==
  /\ request' = Built("default", OllamaRequest_default)
  /\ UNCHANGED <<ollama, call, stream_vars, produced>>

request_new(m, prompt, options, stream, raw) ==
  /\ request' = Built("new", OllamaRequest_new(m, prompt, options, stream, raw))
  /\ UNCHANGED <<ollama, call, stream_vars, produced>>

NextRequest ==
  \/ request_default
  \/ \E m \in Models, prompt \in Texts, options \in RequestOptions,
        stream \in BOOLEAN, raw \in BOOLEAN :
       request_new(m, prompt, options, stream, raw)

SpecRequest == Init /\ [][NextRequest]_vars

(***************************************************************************)
(* The streaming decoder on single lines of every shape: stream_generate   *)
(* and its sequence, on bodies of one line.                                *)
(***************************************************************************)
Without(value, key) == Obj([k \in DOMAIN value.f \ {key} |-> value.f[k]])
With(value, key, v) == Obj([k \in DOMAIN value.f \cup {key} |->
                              IF k = key THEN v ELSE value.f[k]])
Fragment == FragmentLine[1].v
TerminalEvent == TerminalLine(<<MaxTok>>)[1].v

ShapedEvents ==
  {Fragment, TerminalEvent}
    \cup {Without(Fragment, k) : k \in {"model", "created_at", "response", "done"}}
    \cup {Without(TerminalEvent, "done")}
    \cup {With(TerminalEvent, "prompt_eval_count", Num(n)) : n \in {U8Range - 1, U8Range}}
    \cup {With(TerminalEvent, "eval_count", Num(n)) : n \in {U16Range - 1, U16Range}}
    \cup {With(Fragment, "prompt_eval_count", Num(U8Range + 44))}

LineNet ==
  {[kind |-> "send_err"]}
    \cup {Reply(200, <<Js(v)>>) : v \in ShapedEvents}
    \cup {Reply(200, <<Js(v), Nl>>) : v \in ShapedEvents}

NextLines ==
  \/ \E prompt \in Prompts, net \in LineNet : stream_generate(prompt, net)
  \/ poll_decode
  \/ poll_decode_eof
  \/ \E n \in 1..2 : poll_read(n)
  \/ poll_read_end
  \/ poll_read_err
  \/ poll_after_err
  \/ drop_stream

SpecLines == Init /\ [][NextLines]_vars

(***************************************************************************)
(* The Client with a system instruction: the caller assigns the public     *)
(* field system (as src/src/main.rs does) between its calls.               *)
(***************************************************************************)
Systems == {"", "I am a pirate and I need to act as such"}

set_system(text) ==
  /\ phase = "none"
  /\ ollama' = [ollama EXCEPT !.system = text]
  /\ UNCHANGED <<call, stream_vars, produced, request>>

FrameNet ==
  {[kind |-> "send_err"], [kind |-> "body_err"]}
    \cup {Reply(200, <<Js(FullAnswer(ctx))>>) : ctx \in Contexts}
    \cup {Reply(200, <<Raw("<html>502 Bad Gateway</html>")>>), Reply(404, <<Js(ErrorAnswer)>>)}

NextFrame ==
  \/ \E text \in Systems : set_system(text)
  \/ \E prompt \in Prompts, net \in FrameNet : generate(prompt, net)
  \/ \E prompt \in Prompts, net \in FrameNet : generate_blocking(prompt, net)
  \/ \E prompt \in Prompts, net \in LineNet : stream_generate(prompt, net)
  \/ poll_decode
  \/ poll_decode_eof
  \/ \E n \in 1..2 : poll_read(n)
  \/ poll_read_end
  \/ poll_read_err
  \/ poll_after_err
  \/ drop_stream

SpecFrame == Init /\ [][NextFrame]_vars

(***************************************************************************)
(* What the properties speak of.                                           *)
(***************************************************************************)
NonStreaming == call.op \in {"generate", "generate_blocking"}
Streaming == call.op = "stream_generate" /\ call.result.ok

\* the context an outgoing request carries, read back from the bytes sent
SentContext ==
  LET c == Get(from_str_Value(call.request_json).v, "context")
  IN [i \in 1..Len(c.a) |-> c.a[i].n]

RECURSIVE SplitLines(_)
\* the lines of a whole body: what stands between its newlines
SplitLines(text) ==
  LET nls == {i \in 1..Len(text) : text[i] = Nl}
      at == CHOOSE i \in nls : \A j \in nls : i <= j
  IN IF nls = {} THEN (IF text = <<>> THEN <<>> ELSE <<text>>)
     ELSE <<SubSeq(text, 1, at - 1)>> \o SplitLines(SubSeq(text, at + 1, Len(text)))

InputLines == SplitLines(call.net.body)
Blank(line) == \A i \in 1..Len(line) : IsWhitespace(line[i])
NonBlank(lines, upto) == {j \in 1..upto : ~Blank(lines[j])}
\* the items that come from a line, and those that report a framing failure
LineItems == {i \in 1..Len(items) : origin[i] # 0}
FramingFailed == \E i \in 1..Len(items) : origin[i] = 0
Terminal(item) == item.ok /\ item.v.done
\* the sequence was consumed to its end and the transport did not fail
ReadToEnd == Streaming /\ phase = "ended" /\ ~FramingFailed

(***************************************************************************)
(* C1: after a successful generate or generate_blocking the Client's       *)
(* context is exactly the context of that call's response, whatever it was *)
(* before: replaced, not merged or appended.                               *)
(***************************************************************************)
C1_ContextReplaced ==
  (NonStreaming /\ call.result.ok) =>
    /\ ollama.context = call.result.v.context
    /\ \A ctx \in Contexts :
         call.net.body = <<Js(FullAnswer(ctx))>> => ollama.context = ctx

C1_Witness ==
  /\ NonStreaming /\ call.result.ok
  /\ call.before.context = <<1>>
  /\ ollama.context = <<MaxTok>>

(***************************************************************************)
(* C2: once a streaming sequence has yielded its terminal event (done =    *)
(* true, with a context), the Client's context is that event's context.    *)
(***************************************************************************)
C2_StreamContextStored ==
  (Streaming /\ items # <<>>) =>
    LET last == items[Len(items)]
    IN (Terminal(last) /\ last.v.context.some) => ollama.context = last.v.context.v

(***************************************************************************)
(* C3: the context in every outgoing request is the context of the most    *)
(* recent earlier response or terminal streaming event on the Client, and  *)
(* is empty for the first call.                                            *)
(***************************************************************************)
C3_RequestCarriesLatestContext ==
  call.op # "none" => SentContext = call.threaded

(***************************************************************************)
(* C4: a call that fails before a terminal result (transport error, body   *)
(* that is not JSON) leaves the Client's context as it was before the call;*)
(* so does a streaming sequence that has yielded no terminal event.        *)
(***************************************************************************)
C4_FailureKeepsContext ==
  /\ (call.op # "none" /\ ~call.result.ok) => ollama.context = call.before.context
  /\ (Streaming /\ \A i \in 1..Len(items) : ~Terminal(items[i]))
       => ollama.context = call.before.context

C4_Witness ==
  /\ NonStreaming /\ ~call.result.ok /\ call.result.err = "Serde"
  /\ call.before.context # <<>>
  /\ ollama.context = call.before.context

(***************************************************************************)
(* C5: a reply with a non-2xx status makes the call return a transport     *)
(* error.                                                                  *)
(***************************************************************************)
C5_Non2xxIsTransportError ==
  (call.op # "none" /\ call.net.kind = "reply" /\ call.net.status \notin 200..299)
    => (~call.result.ok /\ call.result.err = "Reqwest")

(***************************************************************************)
(* C6: after an event with done = true the sequence yields nothing more,   *)
(* so at most one yielded event has done = true.                           *)
(***************************************************************************)
C6_NothingAfterDone ==
  \A i \in 1..Len(items) : Terminal(items[i]) => i = Len(items)

(***************************************************************************)
(* C7: a line that is blank after trimming yields no item, neither event   *)
(* nor error: the items that come from lines are as many as the non-blank  *)
(* lines framed so far, and a body read to its end has yielded as many     *)
(* items as it has non-blank lines.                                        *)
(***************************************************************************)
C7_BlankLinesYieldNothing ==
  Streaming =>
    /\ nlines <= Len(InputLines)
    /\ \A i \in LineItems : ~Blank(InputLines[origin[i]])
    /\ Cardinality(LineItems) = Cardinality(NonBlank(InputLines, nlines))
    /\ ReadToEnd => Len(items) = Cardinality(NonBlank(InputLines, Len(InputLines)))

C7_Witness ==
  /\ ReadToEnd
  /\ \E j \in 1..Len(InputLines) : InputLines[j] = <<SP>>
  /\ Len(items) = 1 /\ origin = <<2>> /\ items[1].ok

(***************************************************************************)
(* C8: the items come in the order of their lines, each line's item once,  *)
(* none lost: the k-th item from a line is the decoding of the k-th        *)
(* non-blank line, and a body read to its end has had all its lines framed.*)
(***************************************************************************)
C8_ItemsInLineOrder ==
  Streaming =>
    /\ nlines <= Len(InputLines)
    /\ \A i, j \in LineItems : i < j => origin[i] < origin[j]
    /\ {origin[i] : i \in LineItems} = NonBlank(InputLines, nlines)
    /\ \A i \in LineItems : items[i] = from_str_OllamaStreamResponse(InputLines[origin[i]])
    /\ ReadToEnd => nlines = Len(InputLines)

C8_Witness ==
  /\ ReadToEnd
  /\ Len(items) = 2 /\ origin = <<1, 2>>
  /\ items[1].ok /\ items[2].ok /\ ~items[1].v.done /\ items[2].v.done

(***************************************************************************)
(* C9: a non-blank line that fails JSON decoding yields an error item in   *)
(* its place and does not end the sequence: every later non-blank line     *)
(* still yields its own item.                                              *)
(***************************************************************************)
C9_DecodeErrorDoesNotEnd ==
  Streaming =>
    /\ nlines <= Len(InputLines)
    /\ \A j \in NonBlank(InputLines, nlines) :
         ~from_str_OllamaStreamResponse(InputLines[j]).ok
           => \E i \in LineItems : origin[i] = j /\ items[i] = Err("Serde")
    /\ ReadToEnd =>
         \A j \in NonBlank(InputLines, Len(InputLines)) : \E i \in LineItems : origin[i] = j

C9_Witness ==
  /\ ReadToEnd
  /\ Len(items) = 2 /\ origin = <<1, 2>>
  /\ items[1] = Err("Serde") /\ items[2].ok

(***************************************************************************)
(* C10: decoding a non-streaming body fails exactly when the body is not   *)
(* JSON; for a JSON body it succeeds, and a metric, context or response    *)
(* field that is missing or of the wrong type takes its zero value.        *)
(***************************************************************************)
Durations == {"total_duration", "load_duration", "prompt_eval_duration", "eval_duration"}
Counts == {"prompt_eval_count", "eval_count"}
Unsigned(v) == v.t = "num" /\ v.n >= 0
UnsignedArray(v) == v.t = "arr" /\ \A i \in 1..Len(v.a) : Unsigned(v.a[i])
\* the JSON value of a body that is JSON
BodyValue == (CHOOSE i \in 1..Len(call.net.body) : call.net.body[i].k = "json")
Replied == NonStreaming /\ call.net.kind = "reply"

FailsIffNotJson ==
  /\ call.net.body \in InvalidBodies <=> ~call.result.ok
  /\ call.net.body \in ValidBodies <=> call.result.ok
  /\ ~call.result.ok => call.result.err = "Serde"

ScalarsDefaultToZero ==
  LET value == call.net.body[BodyValue].v
      response == call.result.v
  IN /\ \A k \in Durations \cup Counts :
          ~Unsigned(Get(value, k)) => response[k] = 0
     /\ Get(value, "response").t # "str" => response.response = <<>>

C10_DecodeDefaultsToZero ==
  Replied =>
    /\ FailsIffNotJson
    /\ call.result.ok =>
         /\ ScalarsDefaultToZero
         /\ ~UnsignedArray(Get(call.net.body[BodyValue].v, "context"))
              => call.result.v.context = <<>>

RECURSIVE OnlyUnsigned(_)
\* the unsigned integers of an array, in its order
OnlyUnsigned(arr) ==
  IF arr = <<>> THEN <<>>
  ELSE (IF Unsigned(Head(arr)) THEN <<Head(arr).n>> ELSE <<>>) \o OnlyUnsigned(Tail(arr))

(***************************************************************************)
(* C10, amended: as above, but a context is the empty sequence only when   *)
(* it is missing or not an array; of an array, the elements that are not   *)
(* unsigned integers are dropped and the others kept in order.             *)
(***************************************************************************)
C10_DecodeDefaultsAmended ==
  Replied =>
    /\ FailsIffNotJson
    /\ call.result.ok =>
         LET c == Get(call.net.body[BodyValue].v, "context")
         IN /\ ScalarsDefaultToZero
            /\ c.t # "arr" => call.result.v.context = <<>>
            /\ c.t = "arr" => call.result.v.context = OnlyUnsigned(c.a)

C10_Witness ==
  /\ Replied /\ call.result.ok
  /\ call.net.body = <<Js(MixedContextAnswer)>>
  /\ call.result.v.context = <<1, MaxTok>>
  /\ call.result.v.total_duration = 0

(***************************************************************************)
(* C11: the decoded text is the outer response string unwrapped exactly    *)
(* once: the inner response string when the outer string is JSON with a    *)
(* string response key, the outer string unchanged otherwise; the inner    *)
(* value is never unwrapped again.                                         *)
(***************************************************************************)
\* the outer response string of the body
OuterResponse ==
  LET r == Get(call.net.body[BodyValue].v, "response")
  IN IF r.t = "str" THEN r.s ELSE <<>>

UnwrappedOnce(raw) ==
  LET inner == from_str_Value(raw)
  IN IF inner.ok /\ Get(inner.v, "response").t = "str"
       THEN Get(inner.v, "response").s
       ELSE raw

C11_UnwrappedExactlyOnce ==
  (Replied /\ call.result.ok) =>
    /\ call.result.v.response = UnwrappedOnce(OuterResponse)
    /\ OuterResponse = DoubleEncoded => call.result.v.response = Text("inner text")
    /\ OuterResponse = TripleEncoded => call.result.v.response = DoubleEncoded
    /\ OuterResponse \in {NoInnerKey, InnerNotString, BareNumber, Text("Hello there")}
         => call.result.v.response = OuterResponse

C11_Witness ==
  /\ Replied /\ call.result.ok
  /\ OuterResponse = TripleEncoded
  /\ call.result.v.response = DoubleEncoded

(***************************************************************************)
(* C12: a request built by default construction has the default model      *)
(* name, an empty prompt, suffix and system prompt, the format serialized  *)
(* as the empty string, stream and raw false, and an empty context.        *)
(***************************************************************************)
C12_DefaultRequest ==
  request.via = "default" =>
    LET sent == from_str_Value(request.json).v
    IN /\ request.value.model = "llama3.2"
       /\ request.value.prompt = ""
       /\ request.value.suffix = ""
       /\ request.value.format = ""
       /\ request.value.system = ""
       /\ request.value.stream = FALSE
       /\ request.value.raw = FALSE
       /\ request.value.context = <<>>
       /\ Get(sent, "format") = Str(<<>>)
       /\ Get(sent, "stream") = Bool(FALSE)
       /\ Get(sent, "context") = Arr(<<>>)

C12_Witness ==
  /\ request.via = "default"
  /\ Get(from_str_Value(request.json).v, "model") = Str(Text("llama3.2"))

(***************************************************************************)
(* C13: the items depend only on the bytes received, not on how the        *)
(* transport cuts them into chunks: a line yields nothing before its       *)
(* newline has arrived or the body has ended, the buffer holds exactly the *)
(* bytes received behind the last framed line, each item is the decoding   *)
(* of its whole line, and a body read to its end has yielded the items of  *)
(* its lines, whatever the chunks were.                                    *)
(***************************************************************************)
Consuming == Streaming /\ phase # "none"
Received == SubSeq(call.net.body, 1, Len(call.net.body) - Len(bytes))
Newlines(text) == {i \in 1..Len(text) : text[i] = Nl}
\* the place in the body behind its first k lines
Behind(k) ==
  LET body == call.net.body
  IN IF k = 0 THEN 0
     ELSE IF k > Cardinality(Newlines(body)) THEN Len(body)
     ELSE CHOOSE i \in Newlines(body) :
            Cardinality({j \in Newlines(body) : j <= i}) = k

RECURSIVE ItemsOf(_)
\* the items of a sequence of lines: the decoding of each non-blank one
ItemsOf(lines) ==
  IF lines = <<>> THEN <<>>
  ELSE (IF Blank(Head(lines)) THEN <<>>
        ELSE <<from_str_OllamaStreamResponse(Head(lines))>>) \o ItemsOf(Tail(lines))

C13_ChunkingIsInvisible ==
  Consuming =>
    /\ nlines <= Len(InputLines)
    /\ ~framed.eof => nlines <= Cardinality(Newlines(Received))
    /\ framed.buffer = SubSeq(call.net.body, Behind(nlines) + 1, Len(Received))
    /\ ~FramingFailed => items = ItemsOf(SubSeq(InputLines, 1, nlines))
    /\ ReadToEnd => items = ItemsOf(InputLines)

C13_Witness ==
  /\ ReadToEnd
  /\ call.net.body = FragmentLine
  /\ Len(items) = 1 /\ items[1].ok /\ items[1].v.response = Text("The")

(***************************************************************************)
(* C14: a framing failure (an I/O error while the byte stream is split     *)
(* into lines) is yielded as an error item of the same kind as a line that *)
(* fails JSON decoding.                                                    *)
(***************************************************************************)
FramingItems == {i \in 1..Len(items) : origin[i] = 0}
DecodeKind == "Serde"

C14_FramingErrorIsDecodeKind ==
  \A i \in FramingItems : ~items[i].ok /\ items[i].err = DecodeKind

(***************************************************************************)
(* C14, amended: a framing failure is yielded as an error item of the I/O  *)
(* kind (OllamaError::Io), which is not the kind of a line that fails JSON *)
(* decoding (OllamaError::Serde).                                          *)
(***************************************************************************)
C14_FramingErrorIsIoKind ==
  /\ \A i \in FramingItems : ~items[i].ok /\ items[i].err = "Io"
  /\ \A i \in LineItems : ~items[i].ok => items[i].err = DecodeKind

C14_Witness ==
  /\ Consuming
  /\ Len(items) = 2 /\ origin = <<1, 0>>
  /\ items[1] = Err("Serde") /\ items[2] = Err("Io")

(***************************************************************************)
(* C15: in the non-streaming decoder a count that does not fit its field   *)
(* is wrapped, not rejected or zeroed: prompt_eval_count is the wire value *)
(* modulo 2^8, eval_count the wire value modulo 2^16, and the decoding     *)
(* succeeds.                                                               *)
(***************************************************************************)
WireCount(k) == Get(call.net.body[BodyValue].v, k)

C15_CountsWrap ==
  (Replied /\ call.net.body \in ValidBodies) =>
    /\ call.result.ok
    /\ Unsigned(WireCount("prompt_eval_count")) =>
         /\ call.result.v.prompt_eval_count \in 0..255
         /\ \E q \in 0..WireCount("prompt_eval_count").n :
              WireCount("prompt_eval_count").n = 256 * q + call.result.v.prompt_eval_count
    /\ Unsigned(WireCount("eval_count")) =>
         /\ call.result.v.eval_count \in 0..65535
         /\ \E q \in 0..(WireCount("eval_count").n \div 65536) :
              WireCount("eval_count").n = 65536 * q + call.result.v.eval_count
    /\ call.net.body = <<Js(BigCountAnswer)>> =>
         call.result.v.prompt_eval_count = 44 /\ call.result.v.eval_count = 5
    /\ call.net.body = <<Js(CountAnswer(256, 300))>> =>
         call.result.v.prompt_eval_count = 0 /\ call.result.v.eval_count = 300

C15_Witness ==
  /\ Replied /\ call.result.ok
  /\ WireCount("prompt_eval_count") = Num(300)
  /\ WireCount("eval_count") = Num(65541)
  /\ call.result.v.prompt_eval_count = 44
  /\ call.result.v.eval_count = 5

(***************************************************************************)
(* C16: in the streaming decoder a line that is a JSON object whose        *)
(* prompt_eval_count exceeds 255 or whose eval_count exceeds 65535, or     *)
(* that lacks model, created_at, response or done, yields an error item    *)
(* and no event; a terminal line with such a count is never delivered as   *)
(* an event.                                                               *)
(***************************************************************************)
LineValue(line) == line[CHOOSE i \in 1..Len(line) : line[i].k = "json"].v
Exceeds(v, key, most) == Unsigned(Get(v, key)) /\ Get(v, key).n > most
Lacks(v, key) == key \notin DOMAIN v.f
Offending(line) ==
  /\ \E i \in 1..Len(line) : line[i].k = "json"
  /\ LET v == LineValue(line)
     IN /\ v.t = "obj"
        /\ \/ Exceeds(v, "prompt_eval_count", 255)
           \/ Exceeds(v, "eval_count", 65535)
           \/ \E key \in {"model", "created_at", "response", "done"} : Lacks(v, key)

C16_OffendingLineIsError ==
  Consuming =>
    /\ nlines <= Len(InputLines)
    /\ \A j \in NonBlank(InputLines, nlines) :
         Offending(InputLines[j])
           => \E i \in LineItems : origin[i] = j /\ items[i] = Err("Serde")
    /\ \A i \in LineItems : Offending(InputLines[origin[i]]) => ~items[i].ok

C16_Witness ==
  /\ Consuming
  /\ Len(items) = 1 /\ origin = <<1>>
  /\ LineValue(InputLines[1]) = With(TerminalEvent, "eval_count", Num(65536))
  /\ items[1] = Err("Serde")

(***************************************************************************)
(* C17: no call changes anything of the Client but its context: generate   *)
(* and generate_blocking leave url, model and system as they were, whether *)
(* they succeed or fail, and stream_generate and the consumption of its    *)
(* sequence leave every field of the Client as it was.                     *)
(***************************************************************************)
NonStreamingStep ==
  \E prompt \in Prompts, net \in FrameNet :
    generate(prompt, net) \/ generate_blocking(prompt, net)

StreamingStep ==
  \/ \E prompt \in Prompts, net \in LineNet : stream_generate(prompt, net)
  \/ poll_decode \/ poll_decode_eof \/ (\E n \in 1..2 : poll_read(n))
  \/ poll_read_end \/ poll_read_err \/ poll_after_err \/ drop_stream

C17_OnlyContextChanges ==
  [][ /\ NonStreamingStep =>
           /\ ollama'.url = ollama.url
           /\ ollama'.model = ollama.model
           /\ ollama'.system = ollama.system
      /\ StreamingStep => ollama' = ollama ]_vars

C17_Witness ==
  /\ Consuming
  /\ call.before.system # "" /\ call.before.context # <<>>
  /\ ollama = call.before
  /\ Len(items) = 1 /\ Terminal(items[1])
  /\ items[1].v.context.v # ollama.context

====
